---- MODULE Spec2Model ----
(***************************************************************************)
(* PhoTools > PhotOrganiser (src/photOrganiser.py) as a state machine.     *)
(*                                                                         *)
(* The state is the directory tree under the photo root, the IPTC data     *)
(* exiv2 reports for every file, the log file, and the locals of           *)
(* execute() : found_paths, excluded_paths, results, image_matches and the *)
(* mover's loop index and its two result lists.                            *)
(*                                                                         *)
(* Text the code indexes or matches (tags, suffixes, option values, the    *)
(* root_dir argument) is a sequence of one-character strings, so that the  *)
(* matcher, upper() and strip() are computed character by character.       *)
(*                                                                         *)
(* Scope: the tree is one level deep (files at the root and in its         *)
(* folders); what exiv2 prints is taken as already split into tag texts;   *)
(* console output other than the message that ends an aborted call, and    *)
(* with it the verbose flag, is left out; the order in which rglob lists   *)
(* the entries of a directory is the file system's and hence any order.    *)
(***************************************************************************)
EXTENDS Integers, Sequences, FiniteSets, TLC

\* ------------------------------------------------------------- bounds ---
\* Most files that may lie under the root when the model starts.
MaxFiles == 4
\* Most calls of execute() in one behaviour.
MaxRuns == 2

\* ---------------------------------------------------------- constants ---
\* The {4} of the pattern  (?i)date.*(\d{4}?)
YearDigits == 4

None == "None"
Unbound == "Unbound"

JPG == <<"J", "P", "G">>
JPEG == <<"J", "P", "E", "G">>
TIF == <<"T", "I", "F">>
TIFF == <<"T", "I", "F", "F">>
PNG == <<"P", "N", "G">>
AVAILABLE_FILE_TYPES == {JPG, JPEG, TIF, TIFF, PNG}

IPTC == <<"I", "P", "T", "C">>
AVAILABLE_META_TYPES == {IPTC}
KEYWORDS == <<"K", "E", "Y", "W", "O", "R", "D", "S">>
AVAILABLE_TAG_TYPES == {KEYWORDS}
YEAR == <<"Y", "E", "A", "R">>
AVAILABLE_TAG_INFO_SEARCH == {YEAR}

\* ------------------------------------------------------ text functions ---
UpperLetters ==
    <<"A", "B", "C", "D", "E", "F", "G", "H", "I", "J", "K", "L", "M",
      "N", "O", "P", "Q", "R", "S", "T", "U", "V", "W", "X", "Y", "Z">>
LowerLetters ==
    <<"a", "b", "c", "d", "e", "f", "g", "h", "i", "j", "k", "l", "m",
      "n", "o", "p", "q", "r", "s", "t", "u", "v", "w", "x", "y", "z">>
Digits == {"0", "1", "2", "3", "4", "5", "6", "7", "8", "9"}

\* str.lower() and str.upper() of one character
LowerChar(c) ==
    IF \E i \in DOMAIN UpperLetters : UpperLetters[i] = c
    THEN LowerLetters[CHOOSE i \in DOMAIN UpperLetters : UpperLetters[i] = c]
    ELSE c
UpperChar(c) ==
    IF \E i \in DOMAIN LowerLetters : LowerLetters[i] = c
    THEN UpperLetters[CHOOSE i \in DOMAIN LowerLetters : LowerLetters[i] = c]
    ELSE c
Upper(s) == [i \in DOMAIN s |-> UpperChar(s[i])]

\* str.strip(".") : drops the leading and the trailing dots
RECURSIVE StripDots(_)
StripDots(s) ==
    IF s = <<>> THEN s
    ELSE IF Head(s) = "." THEN StripDots(Tail(s))
    ELSE IF s[Len(s)] = "." THEN StripDots(SubSeq(s, 1, Len(s) - 1))
    ELSE s

\* the characters of s as one string
RECURSIVE Join(_)
Join(s) == IF s = <<>> THEN "" ELSE Head(s) \o Join(Tail(s))

Min(S) == CHOOSE m \in S : \A n \in S : m <= n
Max(S) == CHOOSE m \in S : \A n \in S : n <= m

\* --------------------------------------------------------- the matcher ---
DateToken == <<"d", "a", "t", "e">>

\* "date", in any case, starts at position i of tag
IsDateAt(tag, i) ==
    /\ i + Len(DateToken) - 1 <= Len(tag)
    /\ \A k \in 1..Len(DateToken) : LowerChar(tag[i + k - 1]) = DateToken[k]

\* \d{4} matches at position j of tag
IsYearAt(tag, j) ==
    /\ j + YearDigits - 1 <= Len(tag)
    /\ \A k \in 0..(YearDigits - 1) : tag[j + k] \in Digits

\* The positions at which the group of  date.*(\d{4}?)  may start when the
\* match starts at position i.
YearStarts(tag, i) == {j \in (i + Len(DateToken))..Len(tag) : IsYearAt(tag, j)}

\* Which of the candidate positions the group takes: ".*" is greedy, so the
\* engine settles on the rightmost one.
GroupStart(tag, i) == Max(YearStarts(tag, i))

\* re.search(pattern, tag, re.IGNORECASE): group(1) of the leftmost match,
\* None when there is no match.
re_search(tag) ==
    LET starts == {i \in 1..Len(tag) : IsDateAt(tag, i) /\ YearStarts(tag, i) # {}}
    IN  IF starts = {} THEN None
        ELSE LET j == GroupStart(tag, Min(starts))
             IN  Join(SubSeq(tag, j, j + YearDigits - 1))

\* The inner loop without its break: the last tag decides.
RECURSIVE ScanTagsNoBreak(_, _, _)
ScanTagsNoBreak(tags, k, match) ==
    IF k > Len(tags) THEN match
    ELSE ScanTagsNoBreak(tags, k + 1, re_search(tags[k]))

\* The inner loop of find_target_tags over one file's tags, from tag k on,
\* with the value `match` holds on entry. Every iteration assigns match; a
\* loop over no tags leaves it as it was.
RECURSIVE ScanTags(_, _, _)
ScanTags(tags, k, match) ==
    IF k > Len(tags) THEN match
    ELSE LET m == re_search(tags[k])
         IN  IF m # None THEN m ELSE ScanTags(tags, k + 1, m)

\* The outer loop of find_target_tags from file i on. `match` is a local of
\* the function, not of the loop body: it is never reset between files.
\* Reading it while unbound raises UnboundLocalError.
RECURSIVE MatchLoop(_, _, _, _)
MatchLoop(files, i, match, acc) ==
    IF i > Len(files) THEN [raised |-> "", value |-> acc]
    ELSE LET m == ScanTags(files[i].tags, 1, match)
         IN  IF m = Unbound
             THEN [raised |-> "UnboundLocalError", value |-> acc]
             ELSE MatchLoop(files, i + 1, m,
                            Append(acc, [file_path |-> files[i].file_path,
                                         toi |-> m,
                                         errors |-> ""]))

find_target_tags(files, tag_info_search) ==
    IF tag_info_search = YEAR
    THEN MatchLoop(files, 1, Unbound, <<>>)
    ELSE [raised |-> "", value |-> <<>>]

\* ----------------------------------------------------------- the tree ---
\* A path under the root: root/<dir>/<stem><suffix>, or root/<stem><suffix>
\* when dir is "". The directory root/<d> itself is DirPath(d).
Path(d, s, x) == [dir |-> d, stem |-> s, suffix |-> x]
DirPath(d) == Path(d, "", <<>>)
IsDirPath(p) == p.stem = "" /\ p.suffix = <<>>

\* The files that may lie under the root when the model starts: two files of
\* one name, one of them in a year folder already, a file with an upper-case
\* suffix in a folder of its own, a file of an unsupported type, and a
\* regular file at the root that bears the name of a destination folder.
Candidates ==
    << Path("in", "a", <<".", "j", "p", "g">>),
       Path("1984", "a", <<".", "j", "p", "g">>),
       Path("in2", "b", <<".", "P", "N", "G">>),
       Path("in", "n", <<".", "t", "x", "t">>),
       Path("", "2001", <<>>) >>

\* What exiv2 -PI prints for a file: the tag text of each stdout line (the
\* fields from the fourth on, joined by blanks) and its stderr.
TagParis == <<"P", "a", "r", "i", "s">>
TagDate1984 ==
    <<"L", "o", "c", " ", "D", "A", "T", "E", ":", " ",
      "1", "9", "8", "4", " ", "P", "a", "r", "i", "s">>
TagDate2001 == <<"d", "a", "t", "e", " ", "2", "0", "0", "1">>
TagTwoYears ==
    <<"D", "a", "t", "e", " ", "1", "9", "8", "4", " ", "t", "o", " ",
      "2", "0", "0", "1">>
Readings ==
    { [tags |-> <<>>, errors |-> "exiv2: failed to open the data source"],
      [tags |-> <<TagParis>>, errors |-> ""],
      [tags |-> <<TagParis, TagDate1984, TagDate2001>>, errors |-> ""],
      [tags |-> <<TagTwoYears>>, errors |-> ""] }
NoReading == [tags |-> <<>>, errors |-> ""]

\* The arguments execute() is called with: as root_dir the photo root, a
\* directory that does not exist, and the latter written relative to the
\* working directory; for each option a value that is supported (in lower
\* case) and one that is not.
TheRoot == <<"/", "p">>
RootArgs == {TheRoot, <<"/", "m">>, <<".", "/", "m">>}
RootExists(rd) == rd = TheRoot
MetaTypeArgs == {<<"i", "p", "t", "c">>, <<"E", "X", "I", "F">>}
TagTypeArgs == {<<"k", "e", "y", "w", "o", "r", "d", "s">>, <<"a", "l", "l">>}
TagInfoSearchArgs == {<<"y", "e", "a", "r">>, <<"d", "a", "y">>}

NotFoundMessage == "Root directory was not found. Aborting attempt."
InvalidRootMessage == "Invalid root path. Aborting attempt."
InvalidMetaMessage == "Invalid meta type option. Aborting attempt."
InvalidTagTypeMessage == "Invalid tag type option. Aborting attempt."
InvalidSearchMessage == "Invalid tag search option. Aborting attempt."
LogHeader == "# Output log for the fotorganizer script."
ExistsMessage == "File already exists as this path. Not moving."

VARIABLES
    fs,              \* the regular files under the root: path -> content
    dirs,            \* the directories under the root
    iptc,            \* content -> what exiv2 prints for it
    log,             \* photOrganiser.log, one entry per message; <<>>: no file
    pc,              \* where the current call of execute() is
    calls,           \* calls of execute() started
    completed,       \* calls of execute() that reached their last statement
    before,          \* fs when the current call started
    printed,         \* the message of the except clause that ended the call
    root_dir,        \* the arguments of the current call
    rename_files,
    meta_type,
    tag_type,
    tag_info_search,
    found_paths,
    excluded_paths,
    results,
    image_matches,
    idx,             \* files _move_images has gone through
    successful,
    errors,
    uuids            \* names _gen_filename has handed out

vars ==
    <<fs, dirs, iptc, log, pc, calls, completed, before, printed, root_dir,
      rename_files, meta_type, tag_type, tag_info_search, found_paths,
      excluded_paths, results, image_matches, idx, successful, errors, uuids>>

args == <<root_dir, rename_files, meta_type, tag_type, tag_info_search>>

\* ------------------------------------------------------------ helpers ---
IsSupported(p) == StripDots(Upper(p.suffix)) \in AVAILABLE_FILE_TYPES

\* Path.rglob("*") of a tree one level deep: the entries of the root first,
\* then those of each folder, folder after folder; the order of the entries
\* of one directory is the file system's.
IsRglobOrder(order, files) ==
    /\ Len(order) = Cardinality(files)
    /\ {order[i] : i \in DOMAIN order} = files
    /\ \A i, j \in DOMAIN order :
          i < j =>
             /\ order[j].dir = "" => order[i].dir = ""
             /\ order[i].dir = order[j].dir =>
                   \A k \in i..j : order[k].dir = order[i].dir
RglobOrders(files) ==
    {order \in [1..Cardinality(files) -> files] : IsRglobOrder(order, files)}

\* The files rglob finds under the root the call was given.
FilesUnder(rd, tree) == IF RootExists(rd) THEN DOMAIN tree ELSE {}

RECURSIVE Filter(_, _)
Filter(seq, keep) ==
    IF seq = <<>> THEN <<>>
    ELSE IF Head(seq) \in keep THEN <<Head(seq)>> \o Filter(Tail(seq), keep)
    ELSE Filter(Tail(seq), keep)

\* _get_files without its test of the suffix
_get_files_unfiltered(order) == [valid_paths |-> order, excluded_paths |-> <<>>]

\* _get_files: the partition of the files found, each part in rglob's order
_get_files(order) ==
    LET valid == {p \in {order[i] : i \in DOMAIN order} : IsSupported(p)}
    IN  [valid_paths |-> Filter(order, valid),
         excluded_paths |-> Filter(order, {order[i] : i \in DOMAIN order} \ valid)]

\* _validate_args: the message of the ValueError it raises, "" when it
\* returns. verbose and rename_files are of type bool and pass.
_validate_args(rd, mt, tt, ts) ==
    IF rd # <<>> /\ rd[1] = "." THEN InvalidRootMessage
    ELSE IF mt # <<>> /\ Upper(mt) \notin AVAILABLE_META_TYPES THEN InvalidMetaMessage
    ELSE IF tt # <<>> /\ Upper(tt) \notin AVAILABLE_TAG_TYPES THEN InvalidTagTypeMessage
    ELSE IF ts # <<>> /\ Upper(ts) \notin AVAILABLE_TAG_INFO_SEARCH THEN InvalidSearchMessage
    ELSE ""

\* resolve(strict=False) never raises
ResolveLax(rd) == TRUE

\* Path(root_dir).resolve(strict=True): raises FileNotFoundError when FALSE
ResolveStrict(rd) == RootExists(rd)

\* _mode_selector
_mode_selector(meta, tag) ==
    IF meta = IPTC /\ tag = KEYWORDS THEN "_get_iptc_keywords" ELSE None

\* _get_iptc_keywords over the whole batch
_get_iptc_keywords(file_paths, tree, data) ==
    [i \in DOMAIN file_paths |->
        [file_path |-> file_paths[i],
         tags |-> data[tree[file_paths[i]]].tags,
         errors |-> data[tree[file_paths[i]]].errors]]

\* _write_log: the header when the file is new or empty, then the message
_write_log(l, message) ==
    IF Len(l) > 0 THEN Append(l, message) ELSE <<LogHeader, message>>

\* _gen_filename: a name no file bears
_gen_filename(n, suffix, d) == Path(d, "uuid" \o ToString(n), suffix)

\* os.rename: src becomes dst; a file at dst is replaced
Rename(tree, src, dst) ==
    [p \in (DOMAIN tree \ {src}) \cup {dst} |->
        IF p = dst THEN tree[src] ELSE tree[p]]

\* A move that replaces what lies at the destination
RefusesNothing(tree, real_dst) == FALSE

\* Whether shutil.move refuses a destination that exists inside the
\* directory it was given.
RefusesExisting(tree, real_dst) == real_dst \in DOMAIN tree

\* shutil.move(src, dst): into the directory dst under src's own name, or to
\* the path dst.
shutil_move(tree, src, dst) ==
    LET real_dst == IF IsDirPath(dst)
                    THEN Path(dst.dir, src.stem, src.suffix)
                    ELSE dst
    IN  IF src \notin DOMAIN tree
        THEN [raised |-> "FileNotFoundError", tree |-> tree, path |-> real_dst]
        ELSE IF IsDirPath(dst) /\ RefusesExisting(tree, real_dst)
        THEN [raised |-> "shutil.Error", tree |-> tree, path |-> real_dst]
        ELSE [raised |-> "", tree |-> Rename(tree, src, real_dst), path |-> real_dst]

\* Path.mkdir(parents=True, exist_ok=True) of root/<d>: FileExistsError when
\* a regular file bears that name.
MkdirFails(tree, d) == Path("", d, <<>>) \in DOMAIN tree

\* -------------------------------------------------------------- Init ---
\* Some of the candidate files lie under the root, each with IPTC data of
\* its own; nothing has run and there is no log.
Init ==
    \E present \in SUBSET (DOMAIN Candidates) :
      /\ Cardinality(present) <= MaxFiles
      /\ fs = [p \in {Candidates[i] : i \in present} |->
                  CHOOSE i \in present : Candidates[i] = p]
      /\ dirs = {Candidates[i].dir : i \in present} \ {""}
      /\ iptc \in [present -> Readings \cup {NoReading}]
      /\ \A i \in present :
            IF IsSupported(Candidates[i])
            THEN iptc[i] \in Readings
            ELSE iptc[i] = NoReading
      /\ log = <<>>
      /\ pc = "idle"
      /\ calls = 0
      /\ completed = 0
      /\ before = fs
      /\ printed = ""
      /\ root_dir = TheRoot
      /\ rename_files = FALSE
      /\ meta_type = IPTC
      /\ tag_type = KEYWORDS
      /\ tag_info_search = YEAR
      /\ found_paths = <<>>
      /\ excluded_paths = <<>>
      /\ results = <<>>
      /\ image_matches = <<>>
      /\ idx = 0
      /\ successful = <<>>
      /\ errors = <<>>
      /\ uuids = 0

\* ----------------------------------------------------------- actions ---
\* execute(), lines 237-251 and its except clauses: the arguments are
\* validated, the root is resolved and the files under it are listed. A
\* further call is made once a call has run to its end.
Execute ==
    \E rd \in RootArgs, rf \in BOOLEAN, mt \in MetaTypeArgs,
       tt \in TagTypeArgs, ts \in TagInfoSearchArgs :
      /\ pc \in {"idle", "done"}
      /\ calls < MaxRuns
      /\ calls' = calls + 1
      /\ before' = fs
      /\ root_dir' = rd
      /\ rename_files' = rf
      /\ meta_type' = mt
      /\ tag_type' = tt
      /\ tag_info_search' = ts
      /\ results' = <<>>
      /\ image_matches' = <<>>
      /\ idx' = 0
      /\ successful' = <<>>
      /\ errors' = <<>>
      /\ UNCHANGED <<fs, dirs, iptc, log, completed, uuids>>
      /\ IF _validate_args(rd, mt, tt, ts) # ""
         THEN /\ pc' = "aborted"
              /\ printed' = _validate_args(rd, mt, tt, ts)
              /\ found_paths' = <<>>
              /\ excluded_paths' = <<>>
         ELSE IF ~ResolveStrict(rd)
         THEN /\ pc' = "aborted"
              /\ printed' = NotFoundMessage
              /\ found_paths' = <<>>
              /\ excluded_paths' = <<>>
         ELSE /\ \E order \in RglobOrders(FilesUnder(rd, fs)) :
                    /\ found_paths' = _get_files(order).valid_paths
                    /\ excluded_paths' = _get_files(order).excluded_paths
              /\ pc' = "reading"
              /\ printed' = ""

\* execute(), lines 252-254: the reader the mode selects goes through the
\* whole batch.
GetIptcKeywords ==
    /\ pc = "reading"
    /\ _mode_selector(Upper(meta_type), Upper(tag_type)) = "_get_iptc_keywords"
    /\ results' = _get_iptc_keywords(found_paths, fs, iptc)
    /\ pc' = "matching"
    /\ UNCHANGED <<fs, dirs, iptc, log, calls, completed, before, printed,
                   args, found_paths, excluded_paths, image_matches, idx,
                   successful, errors, uuids>>

\* execute(), lines 255-257: find_target_tags over the whole batch. The
\* UnboundLocalError it may raise is caught by no except clause of execute.
FindTargetTags ==
    /\ pc = "matching"
    /\ LET found == find_target_tags(results, Upper(tag_info_search))
       IN  IF found.raised # ""
           THEN /\ pc' = "crashed"
                /\ printed' = found.raised
                /\ UNCHANGED image_matches
           ELSE /\ pc' = "moving"
                /\ image_matches' = found.value
                /\ UNCHANGED printed
    /\ UNCHANGED <<fs, dirs, iptc, log, calls, completed, before, args,
                   found_paths, excluded_paths, results, idx, successful,
                   errors, uuids>>

\* One iteration of the loop of _move_images, lines 116-140.
MoveImage ==
    /\ pc = "moving"
    /\ idx < Len(image_matches)
    /\ idx' = idx + 1
    /\ LET img == image_matches[idx + 1]
           target_dir == IF img.toi # None THEN img.toi ELSE "unorganised"
           dst == IF rename_files
                  THEN _gen_filename(uuids + 1, img.file_path.suffix, target_dir)
                  ELSE DirPath(target_dir)
           moved == shutil_move(fs, img.file_path, dst)
       IN  IF MkdirFails(fs, target_dir)
           THEN /\ errors' = Append(errors, [old_filepath |-> img.file_path,
                                             error |-> "FileExistsError"])
                /\ UNCHANGED <<fs, dirs, log, successful, uuids>>
           ELSE /\ dirs' = dirs \cup {target_dir}
                /\ uuids' = IF rename_files THEN uuids + 1 ELSE uuids
                /\ IF moved.raised = ""
                   THEN /\ fs' = moved.tree
                        /\ successful' =
                              Append(successful,
                                     [new_filepath |-> moved.path,
                                      old_filepath |-> img.file_path])
                        /\ UNCHANGED <<log, errors>>
                   ELSE IF moved.raised = "shutil.Error"
                   THEN /\ log' = _write_log(log, ExistsMessage)
                        /\ UNCHANGED <<fs, successful, errors>>
                   ELSE /\ errors' = Append(errors,
                                            [old_filepath |-> img.file_path,
                                             error |-> moved.raised])
                        /\ UNCHANGED <<fs, log, successful>>
    /\ UNCHANGED <<iptc, pc, calls, completed, before, printed, args,
                   found_paths, excluded_paths, results, image_matches>>

ReportMessages ==
    <<"files were found", "files were excluded", "List of found files",
      "List of excluded files", "Tags that were read",
      "Tags of interest were detected in these images", "Moved files",
      "Failed moves">>

RECURSIVE WriteAll(_, _)
WriteAll(l, messages) ==
    IF messages = <<>> THEN l
    ELSE WriteAll(_write_log(l, Head(messages)), Tail(messages))

\* execute(), lines 258-274: _move_images has returned; the eight messages
\* of the report go to the log and execute returns, which ends the life of
\* its locals.
Report ==
    /\ pc = "moving"
    /\ idx = Len(image_matches)
    /\ log' = WriteAll(log, ReportMessages)
    /\ pc' = "done"
    /\ completed' = completed + 1
    /\ before' = fs
    /\ found_paths' = <<>>
    /\ excluded_paths' = <<>>
    /\ results' = <<>>
    /\ image_matches' = <<>>
    /\ idx' = 0
    /\ successful' = <<>>
    /\ errors' = <<>>
    /\ UNCHANGED <<fs, dirs, iptc, calls, printed, args, uuids>>

Next == Execute \/ GetIptcKeywords \/ FindTargetTags \/ MoveImage \/ Report

Spec == Init /\ [][Next]_vars

\* ============================================================ claims ===
\* _move_images has gone through the whole batch and is about to return.
MoverReturned == pc = "moving" /\ idx = Len(image_matches)

Count(seq, p) == Cardinality({k \in DOMAIN seq : seq[k].old_filepath = p})

\* The tags of a file among which none matches the pattern.
NoTagMatches(tags) == \A k \in DOMAIN tags : re_search(tags[k]) = None
MatchingTags(tags) == {k \in DOMAIN tags : re_search(tags[k]) # None}

\* Where the file of content c lies.
PathsOf(c) == {q \in DOMAIN fs : fs[q] = c}

\* The i-th file of the batch has been through the mover's loop and the
\* mover met neither an occupied destination nor an exception for it.
MovedCleanly(i) ==
    /\ i <= idx
    /\ Count(successful, image_matches[i].file_path) = 1

\* C1: after a complete run every included file has exactly one tag-read
\* record, exactly one match result and exactly one move outcome: it is
\* once in the successes or once in the errors, never in both, so that
\* len(moved) + len(move_failed) = len(found_paths).
C1_OneOutcomePerFile ==
    MoverReturned =>
      /\ Len(results) = Len(found_paths)
      /\ Len(image_matches) = Len(found_paths)
      /\ \A i \in DOMAIN found_paths :
            /\ results[i].file_path = found_paths[i]
            /\ image_matches[i].file_path = found_paths[i]
            /\ Count(successful, found_paths[i]) + Count(errors, found_paths[i]) = 1
      /\ Len(successful) + Len(errors) = Len(found_paths)

\* C2: an included file none of whose tags matches the pattern (a file
\* without tags too), wherever it stands in the batch, has the token none
\* in what find_target_tags returns, and the mover then takes the file to
\* <root>/unorganised/<original filename>.
C2_NoMatchGoesToUnorganised ==
    \A i \in DOMAIN image_matches :
       NoTagMatches(results[i].tags) =>
          /\ image_matches[i].toi = None
          /\ (MovedCleanly(i) /\ ~rename_files) =>
                PathsOf(before[found_paths[i]]) =
                   {Path("unorganised", found_paths[i].stem,
                         found_paths[i].suffix)}

\* C3: a file for which exiv2 fails or prints no tag line, wherever it
\* stands in the batch, does not end the run: the failure is on its record
\* and the call goes on to match and to move every file.
C3_ReadFailureNotFatal ==
    (\E i \in DOMAIN results : results[i].tags = <<>>) =>
       /\ pc # "crashed"
       /\ pc = "moving" => Len(image_matches) = Len(found_paths)

\* The destination of the batch's next file when rename is off.
NextDestination ==
    LET img == image_matches[idx + 1]
    IN  Path(IF img.toi # None THEN img.toi ELSE "unorganised",
             img.file_path.stem, img.file_path.suffix)

\* C4: with rename off, a file whose destination <root>/<token>/<filename>
\* exists when the mover comes to it is skipped: the tree is as it was
\* (source in place, destination untouched), the file is not added to the
\* successes, nothing is raised and the loop goes on to the next file.
C4_CollisionSkipped ==
    [][(/\ pc = "moving"
        /\ idx < Len(image_matches)
        /\ ~rename_files
        /\ NextDestination \in DOMAIN fs)
       => (/\ fs' = fs
           /\ successful' = successful
           /\ pc' = "moving"
           /\ idx' = idx + 1)]_vars

\* A file of the batch was skipped because another file lay at its
\* destination, and the mover has gone on.
C4_Witness ==
    /\ pc = "moving"
    /\ ~rename_files
    /\ \E i \in 1..idx :
          LET p == image_matches[i].file_path
              d == Path(image_matches[i].toi, p.stem, p.suffix)
          IN  /\ image_matches[i].toi # None
              /\ p \in DOMAIN fs
              /\ d \in DOMAIN fs
              /\ d # p
              /\ d \in DOMAIN before
              /\ fs[p] = before[p]
              /\ fs[d] = before[d]
              /\ Count(successful, p) = 0
              /\ i < idx
    /\ \E k \in DOMAIN log : log[k] = ExistsMessage

\* The year the claim speaks of: the four digits that follow the date token.
YearAfterDate(tag) ==
    LET i == Min({n \in 1..Len(tag) : IsDateAt(tag, n) /\ YearStarts(tag, n) # {}})
        j == Min(YearStarts(tag, i))
    IN  Join(SubSeq(tag, j, j + YearDigits - 1))

\* C5: a file whose first matching tag holds a date token followed by a
\* four-digit year Y gets the token Y and, unless its destination is taken,
\* ends at <root>/Y/<original filename> with rename off and at
\* <root>/Y/<fresh id><original extension> with rename on.
C5_TokenIsYearAfterDate ==
    \A i \in DOMAIN image_matches :
       MatchingTags(results[i].tags) # {} =>
          LET tag == results[i].tags[Min(MatchingTags(results[i].tags))]
              Y == YearAfterDate(tag)
              p == found_paths[i]
          IN  /\ image_matches[i].toi = Y
              /\ MovedCleanly(i) =>
                    \E q \in PathsOf(before[p]) :
                       /\ PathsOf(before[p]) = {q}
                       /\ q.dir = Y
                       /\ q.suffix = p.suffix
                       /\ ~rename_files => q.stem = p.stem
                       /\ rename_files => q \notin DOMAIN before

\* C6: first match wins. The token of a file with matching tags is the one
\* extracted from the earliest matching tag, in the order the tags were
\* read; the tags after it have no say.
C6_FirstMatchWins ==
    \A i \in DOMAIN image_matches :
       MatchingTags(results[i].tags) # {} =>
          image_matches[i].toi =
             re_search(results[i].tags[Min(MatchingTags(results[i].tags))])

\* A file with two matching tags that bear different years has been matched.
C6_Witness ==
    \E i \in DOMAIN image_matches :
       \E k, l \in MatchingTags(results[i].tags) :
          /\ k < l
          /\ re_search(results[i].tags[k]) # re_search(results[i].tags[l])
          /\ image_matches[i].toi = re_search(results[i].tags[k])

\* C7: a call whose root directory does not exist ends with the not-found
\* message.
C7_NotFoundMessage ==
    (pc = "aborted" /\ ~RootExists(root_dir)) => printed = NotFoundMessage

\* C7 as amended: a call whose root directory does not exist ends before
\* discovery, with the not-found message when its arguments pass validation
\* and with the validation message otherwise; it reads no file, creates no
\* directory, moves no file and leaves the log as it was, and nothing
\* follows it.
C7_MissingRootAborts ==
    /\ [][(calls' = calls + 1 /\ ~RootExists(root_dir'))
          => (/\ pc' = "aborted"
              /\ printed' =
                    IF _validate_args(root_dir', meta_type', tag_type',
                                      tag_info_search') = ""
                    THEN NotFoundMessage
                    ELSE _validate_args(root_dir', meta_type', tag_type',
                                        tag_info_search')
              /\ found_paths' = <<>>
              /\ results' = <<>>
              /\ UNCHANGED <<fs, dirs, log, uuids>>)]_vars
    /\ [][pc = "aborted" => UNCHANGED vars]_vars

\* After a run that moved files and wrote the log, a call with valid options
\* and a root that does not exist has ended with the not-found message.
C7_Witness ==
    /\ pc = "aborted"
    /\ ~RootExists(root_dir)
    /\ printed = NotFoundMessage
    /\ completed >= 1
    /\ log # <<>>
    /\ DOMAIN fs # {}

\* C8: the token of a file depends on its own tags alone: every batch that
\* gives the file these tags gives it this token, whatever precedes it.
C8_TokenOfOwnTagsOnly ==
    \A i \in DOMAIN image_matches :
       LET alone == find_target_tags(<<results[i]>>, YEAR)
       IN  /\ alone.raised = ""
           /\ alone.value[1].toi = image_matches[i].toi
           /\ \A r \in Readings :
                 LET pre == [file_path |-> results[i].file_path,
                             tags |-> r.tags, errors |-> r.errors]
                     both == find_target_tags(<<pre, results[i]>>, YEAR)
                 IN  both.raised = "" =>
                        both.value[2].toi = image_matches[i].toi

\* C9: file conservation. In every state, the mover's included, every file
\* that lay under the root when the call began lies at exactly one path, its
\* original one or the new one the successes record for it; no file has
\* appeared, and the files of unsupported type lie where they lay.
C9_FileConservation ==
    /\ \A p \in DOMAIN before :
          /\ Cardinality(PathsOf(before[p])) = 1
          /\ \A q \in PathsOf(before[p]) :
                \/ q = p
                \/ \E k \in DOMAIN successful :
                      /\ successful[k].old_filepath = p
                      /\ successful[k].new_filepath = q
          /\ ~IsSupported(p) => PathsOf(before[p]) = {p}
    /\ \A q \in DOMAIN fs : \E p \in DOMAIN before : before[p] = fs[q]

\* The mover is at work on a tree with a file of unsupported type: it has
\* moved a file, has left one whose destination was taken and has caught an
\* exception for another.
C9_Witness ==
    /\ pc = "moving"
    /\ \E p \in DOMAIN before : ~IsSupported(p)
    /\ \E k \in DOMAIN successful :
          successful[k].new_filepath # successful[k].old_filepath
    /\ Len(errors) >= 1
    /\ \E i \in 1..idx :
          /\ Count(successful, image_matches[i].file_path) = 0
          /\ Count(errors, image_matches[i].file_path) = 0

\* The folder the tags of a file route it to: that of the year of its
\* first matching tag, unorganised when no tag matches.
OwnFolder(tags) ==
    IF MatchingTags(tags) = {} THEN "unorganised"
    ELSE re_search(tags[Min(MatchingTags(tags))])

\* C10: with rename off (no file was ever renamed) and the tags unchanged, a
\* call of execute on a root on which a call has run to its end leaves
\* where it is every file that lies in its year folder or, having no year,
\* in unorganised.
C10_FileInItsFolderStays ==
    (/\ completed >= 1
     /\ ~rename_files
     /\ uuids = 0
     /\ pc \in {"reading", "matching", "moving", "crashed"})
    => \A p \in DOMAIN before :
          (IsSupported(p) /\ p.dir = OwnFolder(iptc[before[p]].tags))
          => (p \in DOMAIN fs /\ fs[p] = before[p])

\* The conclusion of C10: such a call moves no file at all, the tree stays
\* as the call found it. A file that the earlier call left behind, its
\* destination taken by a file that call went on to move away, refutes it
\* as well.
C10_RerunMovesNothing ==
    (/\ completed >= 1
     /\ ~rename_files
     /\ uuids = 0
     /\ pc \in {"reading", "matching", "moving", "crashed"})
    => fs = before

====
